---- MODULE Spec2Model ----
(***************************************************************************)
(* State-machine model of the APDL chaincode (ssdLedger_chaincode/         *)
(* apdlcc.go): the key-value ledger the chaincode reads and writes, the    *)
(* handlers Init and Invoke (download_request, penalty, refund,            *)
(* get_status) and the signature check verifySig.                          *)
(*                                                                         *)
(* Strings of the program are TLA+ strings.  A value of the ledger is a    *)
(* record: [t |-> "nil"] (no value), [t |-> "num", n |-> n] (the decimal   *)
(* string of n) or [t |-> "json", rec |-> r] (the JSON encoding of the     *)
(* APDL struct r).                                                         *)
(***************************************************************************)
EXTENDS Integers, Sequences, FiniteSets, TLC

\* ------------------------------------------------------------ bounds
\* Width of the machine integer (Go's int) in the model, scaled down.
IntBits == 18
\* The clock runs over the instants 1..MaxTime.
MaxTime == 3
\* The number of ledger calls that fail in one run.
MaxFailures == 1

\* ------------------------------------------------- program constants
StartAmount == 75000
ContractKey == "contract"
SenderIP == "0.0.0.0"
SenderPort == "0"

\* ------------------------------------------------- machine integers
MaxInt == 2^(IntBits - 1) - 1
MinInt == -(2^(IntBits - 1))
\* Two's-complement wrap-around of Go's int arithmetic.
Wrap(x) == ((x - MinInt) % (2^IntBits)) + MinInt

\* ------------------------------------------------------- data types
\* The zero instant of time.Time (the zero value of ContractExpiry).
ZeroTime == 0

Party(k, ip, port) == [PubKey |-> k, IPAddress |-> ip, Port |-> port]
ZeroParty == Party("", "", "")

APDL(s, o, u, e, d) ==
    [Status |-> s, SoftwareOwner |-> o, SoftwareUser |-> u,
     ContractExpiry |-> e, DepositAmount |-> d]
\* `var apdl APDL`: the zero value of the struct.
ZeroAPDL == APDL("", ZeroParty, ZeroParty, ZeroTime, 0)

\* ---------------------------------------------------- ledger values
NilValue == [t |-> "nil"]

\* A string argument that is no valid UTF-8 (the one byte 0xFF), and the
\* Unicode replacement character U+FFFD.
InvalidUTF8 == "\\xFF"
ReplacementChar == "\\uFFFD"

\* encoding/json writes a Go string coerced to valid UTF-8: every invalid
\* byte becomes the replacement character.
ToValidUTF8(s) == IF s = InvalidUTF8 THEN ReplacementChar ELSE s

\* A Party as json.Marshal writes it.
MarshalParty(p) ==
    Party(ToValidUTF8(p.PubKey), ToValidUTF8(p.IPAddress), ToValidUTF8(p.Port))

\* json.Marshal(apdl): the bytes of the JSON object.
Marshal(apdl) ==
    [t |-> "json",
     rec |-> APDL(ToValidUTF8(apdl.Status), MarshalParty(apdl.SoftwareOwner),
                  MarshalParty(apdl.SoftwareUser), apdl.ContractExpiry,
                  apdl.DepositAmount)]

\* json.Unmarshal(bytes, &apdl) into a zero APDL, its error ignored: nil
\* bytes and a decimal number are no JSON object and leave apdl zero.
Unmarshal(v) == IF v.t = "json" THEN v.rec ELSE ZeroAPDL

\* []byte(strconv.Itoa(n))
Itoa(n) == [t |-> "num", n |-> n]

\* balance, _ := strconv.Atoi(string(value)): 0 when value is no numeral.
AtoiValue(v) == IF v.t = "num" THEN v.n ELSE 0

\* ------------------------------------------------ signature checking
\* The public-key strings the model draws from: two elliptic-curve keys, an
\* RSA key, an EC key followed by a character outside the base64 alphabet,
\* the ledger's record key (8 base64 characters, 6 bytes that are no DER
\* structure) and the empty string.
ECKeys == {"ecA", "ecB"}
AllKeys == ECKeys \cup {"rsaC", "ecA!", ContractKey, ""}
Messages == {"m1", "m2"}

\* base64.URLEncoding.DecodeString(s): the bytes decoded before the first
\* corrupt character, and whether there was one.
DecodeString(s) ==
    CASE s = "ecA"  -> [bytes |-> "derA", err |-> FALSE]
      [] s = "ecB"  -> [bytes |-> "derB", err |-> FALSE]
      [] s = "rsaC" -> [bytes |-> "derC", err |-> FALSE]
      [] s = "ecA!" -> [bytes |-> "derA", err |-> TRUE]
      [] s = ""     -> [bytes |-> "", err |-> FALSE]
      [] OTHER      -> [bytes |-> "junk", err |-> FALSE]

\* x509.ParsePKIXPublicKey(bytes): the key's dynamic type, "err" on failure.
ParsePKIXPublicKey(bytes) ==
    CASE bytes = "derA" -> [type |-> "ecdsa", id |-> "A"]
      [] bytes = "derB" -> [type |-> "ecdsa", id |-> "B"]
      [] bytes = "derC" -> [type |-> "rsa", id |-> "C"]
      [] OTHER          -> [type |-> "err", id |-> ""]

\* strings.Split(sig, ","): the signature strings of the model and their
\* components.  "rXn,sXn" is key X's signature over message mn.
AllSigs == {"r", "0,0", "rA1,sA1", "rB1,sB1", "rA2,sA2", "rB2,sB2"}
Split(sig) ==
    CASE sig = "rA1,sA1" -> <<"rA1", "sA1">>
      [] sig = "rB1,sB1" -> <<"rB1", "sB1">>
      [] sig = "rA2,sA2" -> <<"rA2", "sA2">>
      [] sig = "rB2,sB2" -> <<"rB2", "sB2">>
      [] sig = "0,0"     -> <<"0", "0">>
      [] OTHER           -> <<sig>>

\* ecdsa.Verify(pub, []byte(message), r, s): unforgeable signatures; (r, s)
\* verifies exactly for the key and message it was made with.
Verify(pub, message, r, s) ==
    \/ pub.id = "A" /\ message = "m1" /\ r = "rA1" /\ s = "sA1"
    \/ pub.id = "B" /\ message = "m1" /\ r = "rB1" /\ s = "sB1"
    \/ pub.id = "A" /\ message = "m2" /\ r = "rA2" /\ s = "sA2"
    \/ pub.id = "B" /\ message = "m2" /\ r = "rB2" /\ s = "sB2"

\* The body of verifySig's loop from position i on, `verified` being the
\* value the variable holds on entry.
RECURSIVE verifyLoop(_, _, _, _, _)
verifyLoop(message, publicKeys, signatures, i, verified) ==
    IF i > Len(publicKeys) THEN verified
    ELSE LET publicKey == ParsePKIXPublicKey(DecodeString(publicKeys[i]).bytes)
             sig == Split(signatures[i])
         IN  IF publicKey.type = "err" THEN FALSE
             ELSE IF Len(sig) < 2 THEN FALSE
             ELSE IF publicKey.type = "ecdsa"
                  THEN verifyLoop(message, publicKeys, signatures, i + 1,
                                  Verify(publicKey, message, sig[1], sig[2]))
                  ELSE FALSE

\* verifySig as it would be if every position had to verify.
verifySigEveryPosition(message, publicKeys, signatures) ==
    /\ Len(publicKeys) = Len(signatures)
    /\ verifyLoop(message, publicKeys, signatures, 1, FALSE)
    /\ \A i \in 1..Len(publicKeys) :
          LET publicKey == ParsePKIXPublicKey(DecodeString(publicKeys[i]).bytes)
              sig == Split(signatures[i])
          IN  Verify(publicKey, message, sig[1], sig[2])

verifySig(message, publicKeys, signatures) ==
    IF Len(publicKeys) # Len(signatures) THEN FALSE
    ELSE verifyLoop(message, publicKeys, signatures, 1, FALSE)

\* ------------------------------------------------- argument parsing
\* The decimal numerals the model passes as amounts.
AmountValues == {-1, 0, 1, MaxInt, MaxInt + 1}
AmountArgs == {"abc"} \cup {ToString(n) : n \in AmountValues}

\* strconv.Atoi(s) of an argument: an error for a string that is no numeral
\* and for a numeral outside the range of int.
AtoiOf[s \in AmountArgs] ==
    LET hits == {n \in AmountValues : ToString(n) = s}
    IN  IF hits = {} THEN [n |-> 0, err |-> TRUE]
        ELSE LET n == CHOOSE n \in hits : TRUE
             IN  IF n < MinInt \/ n > MaxInt THEN [n |-> 0, err |-> TRUE]
                 ELSE [n |-> n, err |-> FALSE]
Atoi(s) == AtoiOf[s]

\* The date strings of the model: DateString(d) is the "01/02/2006" form of
\* the day that starts at instant d; "13/45/2020" is no date.
DateString(d) == "date" \o ToString(d)
DateArgs == {"13/45/2020"} \cup {DateString(d) : d \in 2..MaxTime}

\* time.Parse("01/02/2006", s)
ParseDateOf[s \in DateArgs] ==
    LET hits == {d \in 1..MaxTime : DateString(d) = s}
    IN  IF hits = {} THEN [t |-> ZeroTime, err |-> TRUE]
        ELSE [t |-> CHOOSE d \in hits : TRUE, err |-> FALSE]
ParseDate(s) == ParseDateOf[s]

\* ------------------------------------------------------- the ledger
\* The keys of the ledger: the record's key and the public keys that
\* download_request is called with.
RequestKeys == {"ecA", "ecB", ContractKey}
LedgerKeys == RequestKeys \cup {ContractKey}

\* stub.GetState(key); `fail` says that the ledger reports an error.  A key
\* never written (the empty key is never written) reads as nil bytes without
\* an error.
GetState(st, key, fail) ==
    IF fail THEN [value |-> NilValue, err |-> TRUE]
    ELSE IF key \notin DOMAIN st THEN [value |-> NilValue, err |-> FALSE]
    ELSE [value |-> st[key], err |-> FALSE]

\* stub.PutState(key, value): the ledger after the call; a failing call
\* writes nothing, and the call with the empty key always fails.  Later reads
\* of the invocation see the write.
PutState(st, key, value, fail) ==
    IF fail \/ key = "" THEN st ELSE [st EXCEPT ![key] = value]

\* shim.Error(msg) and shim.Success(payload).  `message` is the error message
\* or the text of the payload, `payload` the ledger bytes get_status returns.
Error(msg) == [status |-> "ERROR", message |-> msg]
Success(text) == [status |-> "OK", message |-> text]
SuccessBytes(v) == [status |-> "OK", message |-> "", payload |-> v]

\* What a handler leaves: the ledger, the response, and `failed`, the
\* positions of the ledger calls it made that failed.
Outcome(st, r, failed) == [store |-> st, resp |-> r, failed |-> failed]

\* --------------------------------------------------------- handlers
\* Every handler is an operator from the ledger `st`, the string arguments
\* of the transaction `args` (the function name first, as GetStringArgs
\* returns them), the instant `t` of time.Now() and `faults`, the positions
\* (1 = the handler's first ledger call) of the ledger calls that fail, to
\* the ledger afterwards and the response.

\* SimpleAsset.Init
ChaincodeInit(st, t, faults) ==
    LET apdl == APDL("init", ZeroParty, ZeroParty, t, 0)
        st1  == PutState(st, ContractKey, Marshal(apdl), 1 \in faults)
    IN  IF 1 \in faults
        THEN Outcome(st1, Error("[-] Failed to process download request transaction. Error!"), {1})
        ELSE Outcome(st1, Success("[+] Init completed\n"), {})

\* The writes of download_request as they would be if the amount were added
\* to the starting amount.
RequestWritesCredit(st, args, amount, dt, faults) ==
    LET senderPublicKey    == args[2]
        recipientPublicKey == args[3]
        ds   == Party(senderPublicKey, SenderIP, SenderPort)
        dr   == Party(recipientPublicKey, args[6], args[7])
        apdl == APDL("download_requested", ds, dr, dt, amount)
        initialAmount == Itoa(Wrap(StartAmount + amount))
        st1  == PutState(st, senderPublicKey, initialAmount, 1 \in faults)
        st2  == PutState(st1, recipientPublicKey, initialAmount, 2 \in faults)
        st3  == PutState(st2, ContractKey, Marshal(apdl), 3 \in faults)
    IN  IF 3 \in faults
        THEN Outcome(st3, Error("[-] Failed to process download request transaction. Error!"),
                     faults \cap 1..3)
        ELSE Outcome(st3, Success(args[1]), faults \cap 1..3)

\* The three ledger writes of download_request and its response; only the
\* error of the last write is looked at.
RequestWrites(st, args, amount, dt, faults) ==
    LET senderPublicKey    == args[2]
        recipientPublicKey == args[3]
        ds   == Party(senderPublicKey, SenderIP, SenderPort)
        dr   == Party(recipientPublicKey, args[6], args[7])
        apdl == APDL("download_requested", ds, dr, dt, amount)
        initialAmount == Itoa(Wrap(StartAmount - amount))
        st1  == PutState(st, senderPublicKey, initialAmount, 1 \in faults)
        st2  == PutState(st1, recipientPublicKey, initialAmount, 2 \in faults)
        st3  == PutState(st2, ContractKey, Marshal(apdl), 3 \in faults)
    IN  IF 3 \in faults
        THEN Outcome(st3, Error("[-] Failed to process download request transaction. Error!"),
                     faults \cap 1..3)
        ELSE Outcome(st3, Success(args[1]), faults \cap 1..3)

\* download_request as it would be if the ledger writes came before the
\* check that the date is in the future.
DownloadRequestWritesFirst(st, args, t, faults) ==
    IF Len(args) # 7
    THEN Outcome(st, Error("Incorrect number of arguments"), {})
    ELSE LET amount == Atoi(args[4])
             dt     == ParseDate(args[5])
         IN  IF amount.err \/ amount.n < 0
             THEN Outcome(st, Error("Invalid amount passed"), {})
             ELSE IF dt.err
             THEN Outcome(st, Error("Unable to parse"), {})
             ELSE IF ~(dt.t > t)
             THEN Outcome(RequestWrites(st, args, amount.n, dt.t, faults).store,
                          Error("Invalid (past) time passed"), {})
             ELSE RequestWrites(st, args, amount.n, dt.t, faults)

\* download_request as it would be if the amount were only parsed, not
\* compared with 0.
DownloadRequestAnyAmount(st, args, t, faults) ==
    IF Len(args) # 7
    THEN Outcome(st, Error("Incorrect number of arguments"), {})
    ELSE LET amount == Atoi(args[4])
             dt     == ParseDate(args[5])
         IN  IF amount.err
             THEN Outcome(st, Error("Invalid amount passed"), {})
             ELSE IF dt.err
             THEN Outcome(st, Error("Unable to parse"), {})
             ELSE IF ~(dt.t > t)
             THEN Outcome(st, Error("Invalid (past) time passed"), {})
             ELSE RequestWrites(st, args, amount.n, dt.t, faults)

\* Invoke, fn == "download_request"
DownloadRequestHandler(st, args, t, faults) ==
    IF Len(args) # 7
    THEN Outcome(st, Error("Incorrect number of arguments"), {})
    ELSE LET amount == Atoi(args[4])
             dt     == ParseDate(args[5])
         IN  IF amount.err \/ amount.n < 0
             THEN Outcome(st, Error("Invalid amount passed"), {})
             ELSE IF dt.err
             THEN Outcome(st, Error("Unable to parse"), {})
             ELSE IF ~(dt.t > t)
             THEN Outcome(st, Error("Invalid (past) time passed"), {})
             ELSE RequestWrites(st, args, amount.n, dt.t, faults)

\* The status check of penalty as it would be without its second disjunct.
PenaltyStatusRejectedInitOnly(status) == status = "init"

\* The status check of penalty as it would be if it let only the status
\* pass that refund asks for.
PenaltyStatusRejectedButRequest(status) == status # "download_request"

\* if apdl.Status == "init" || apdl.Status == "penalized"
PenaltyStatusRejected(status) == status = "init" \/ status = "penalized"

\* The ledger calls of penalty after the signature check; no error of theirs
\* is looked at.
PenaltyWrites(st, apdl, faults) ==
    LET value   == GetState(st, apdl.SoftwareUser.PubKey, 2 \in faults).value
        balance == Wrap(AtoiValue(value) - apdl.DepositAmount)
        st1     == PutState(st, apdl.SoftwareUser.PubKey, Itoa(balance), 3 \in faults)
        stored  == [apdl EXCEPT !.Status = "penalized"]
        st2     == PutState(st1, ContractKey, Marshal(stored), 4 \in faults)
    IN  Outcome(st2, Success("[+] Penalty applied\n"), faults \cap 2..4)

\* penalty as it would be if the result of verifySig were not looked at.
PenaltyHandlerUnverified(st, args, faults) ==
    IF Len(args) # 4
    THEN Outcome(st, Error("need to pass recipient sig"), {})
    ELSE LET contract == GetState(st, ContractKey, 1 \in faults)
             apdl     == Unmarshal(contract.value)
         IN  IF contract.err
             THEN Outcome(st, Error("[-] Failed to get contract"), {1})
             ELSE IF PenaltyStatusRejected(apdl.Status)
             THEN Outcome(st, Error("[-] Invalid status for penalty"), {})
             ELSE PenaltyWrites(st, apdl, faults)

\* Invoke, fn == "penalty".  `args` here is what GetFunctionAndParameters
\* returns, the arguments after the function name: the handler wants four of
\* them and reads the message and the two signatures from the last three.
PenaltyHandler(st, args, faults) ==
    IF Len(args) # 4
    THEN Outcome(st, Error("need to pass recipient sig"), {})
    ELSE LET contract == GetState(st, ContractKey, 1 \in faults)
             apdl     == Unmarshal(contract.value)
             publicKeys == <<apdl.SoftwareOwner.PubKey, apdl.SoftwareUser.PubKey>>
             signatures == <<args[3], args[4]>>
         IN  IF contract.err
             THEN Outcome(st, Error("[-] Failed to get contract"), {1})
             ELSE IF PenaltyStatusRejected(apdl.Status)
             THEN Outcome(st, Error("[-] Invalid status for penalty"), {})
             ELSE IF verifySig(args[2], publicKeys, signatures) # TRUE
             THEN Outcome(st, Error("[-] Signature verification failed"), {})
             ELSE PenaltyWrites(st, apdl, faults)

\* The status check of refund as it would be if it let every status pass.
RefundStatusAny(status) == TRUE

\* if apdl.Status != "download_request"
RefundStatusAccepted(status) == status = "download_request"

\* The ledger calls of refund once the contract has expired: the record
\* first, then the balance; no error of theirs is looked at.
RefundWrites(st, apdl, faults) ==
    LET stored  == [apdl EXCEPT !.Status = "expired"]
        st1     == PutState(st, ContractKey, Marshal(stored), 2 \in faults)
        value   == GetState(st1, apdl.SoftwareUser.PubKey, 3 \in faults).value
        balance == Wrap(AtoiValue(value) + apdl.DepositAmount)
        st2     == PutState(st1, apdl.SoftwareUser.PubKey, Itoa(balance), 4 \in faults)
    IN  Outcome(st2, Success("[+] APDL contract expired."), faults \cap 2..4)

\* Invoke, fn == "refund"
RefundHandler(st, t, faults) ==
    LET contract == GetState(st, ContractKey, 1 \in faults)
        apdl     == Unmarshal(contract.value)
    IN  IF contract.err
        THEN Outcome(st, Error("ledger error"), {1})
        ELSE IF ~RefundStatusAccepted(apdl.Status)
        THEN Outcome(st, Error("[-] Invalid status for refund"), {})
        ELSE IF t > apdl.ContractExpiry
        THEN RefundWrites(st, apdl, faults)
        ELSE Outcome(st, Error("[-] APDL contract not yet expired"), {})

\* Invoke, fn == "get_status"
GetStatusHandler(st, faults) ==
    LET contract == GetState(st, ContractKey, 1 \in faults)
    IN  IF contract.err
        THEN Outcome(st, Error("ledger error"), {1})
        ELSE Outcome(st, SuccessBytes(contract.value), {})

\* SimpleAsset.Invoke: fn, args := stub.GetFunctionAndParameters() and the
\* dispatch on fn; any other function name answers with the name.
Invoke(st, allArgs, t, faults) ==
    LET fn   == allArgs[1]
        args == Tail(allArgs)
    IN  CASE fn = "download_request" -> DownloadRequestHandler(st, allArgs, t, faults)
          [] fn = "penalty"          -> PenaltyHandler(st, args, faults)
          [] fn = "refund"           -> RefundHandler(st, t, faults)
          [] fn = "get_status"       -> GetStatusHandler(st, faults)
          [] OTHER                   -> Outcome(st, Success(fn), {})

\* ------------------------------------------------------------ state
\* store: the ledger, a value for every key (NilValue: never written).
\* now:   the instant time.Now() returns.
\* fn:    the function of the last transaction ("Init" for SimpleAsset.Init,
\*        "" before the first one).
\* resp:  the response of the last transaction.
\* failures: the number of ledger calls that have failed so far.
\* vs:    a call of verifySig on its own: its inputs and its result.
VARIABLES store, now, fn, resp, failures, vs

vars == <<store, now, fn, resp, failures, vs>>

EmptyLedger == [k \in LedgerKeys |-> NilValue]
NoVerify == [message |-> "", publicKeys |-> <<>>, signatures |-> <<>>,
             result |-> "none"]

\* The process has started (main, shim.Start) on a ledger nothing was written
\* to; no transaction has run.
Init ==
    /\ store = EmptyLedger
    /\ now = 1
    /\ fn = ""
    /\ resp = Success("")
    /\ failures = 0
    /\ vs = NoVerify

\* The sets of failing ledger calls of a handler that makes n ledger calls,
\* in the runs in which ledger calls fail (faulty) and in the others.
Faults(n, faulty) == IF faulty THEN SUBSET (1..n) ELSE {{}}

\* The transactions of the model.
SigArgs == {"r", "rA1,sA1", "rB1,sB1", "rB2,sB2"}
ValidAmountArgs == {a \in AmountArgs : ~Atoi(a).err /\ Atoi(a).n >= 0}
RequestArgs ==
    {<<"download_request", o, u, a, d, "10.0.0.1", "7051">> :
        o \in RequestKeys, u \in RequestKeys, a \in ValidAmountArgs, d \in DateArgs}
    \cup {<<"download_request", "ecA", "ecB", a, DateString(MaxTime), "10.0.0.1", "7051">> :
             a \in AmountArgs}
    \cup {<<"download_request", "ecA", "ecB", "1", DateString(MaxTime), "10.0.0.1">>}
    \cup {<<"download_request", "ecA", "ecB", "1", DateString(MaxTime), InvalidUTF8, "7051">>}
PenaltyArgs ==
    {<<"penalty", "0", m, s1, s2>> : m \in Messages, s1 \in SigArgs, s2 \in SigArgs}
    \cup {<<"penalty", m, "rA1,sA1", "rB1,sB1">> : m \in Messages}

\* The transactions of the runs in which ledger calls fail.
FaultyRequestArgs ==
    {a \in RequestArgs : Len(a) = 7 => a[2] = "ecA" /\ a[3] = "ecB" /\ a[4] \notin {"0"}}
FaultyPenaltyArgs ==
    {a \in PenaltyArgs : Len(a) = 5 => a[3] = "m1" /\ a[4] \in {"r", "rA1,sA1"}
                                       /\ a[5] \in {"r", "rB1,sB1"}}

\* A transaction may have ledger calls fail: `f` names no call the handler
\* did not come to make, and the run's failures stay within MaxFailures.
MayFail(f, failed) == f = failed /\ failures + Cardinality(failed) <= MaxFailures

\* Every action below is one transaction: the handler runs on the ledger as
\* a whole, with the failing ledger calls f.

\* The chaincode is instantiated or upgraded: SimpleAsset.Init runs.
Initialize(faulty) ==
    \E f \in Faults(1, faulty) :
        \E out \in {ChaincodeInit(store, now, f)} :
            /\ MayFail(f, out.failed)
            /\ store' = out.store
            /\ resp' = out.resp
            /\ fn' = "Init"
            /\ failures' = failures + Cardinality(out.failed)
            /\ UNCHANGED <<now, vs>>

DownloadRequest(A, faulty) ==
    \E a \in A, f \in Faults(3, faulty) :
        \E out \in {Invoke(store, a, now, f)} :
            /\ MayFail(f, out.failed)
            /\ store' = out.store
            /\ resp' = out.resp
            /\ fn' = a[1]
            /\ failures' = failures + Cardinality(out.failed)
            /\ UNCHANGED <<now, vs>>

Penalty(A, faulty) ==
    \E a \in A, f \in Faults(4, faulty) :
        \E out \in {Invoke(store, a, now, f)} :
            /\ MayFail(f, out.failed)
            /\ store' = out.store
            /\ resp' = out.resp
            /\ fn' = a[1]
            /\ failures' = failures + Cardinality(out.failed)
            /\ UNCHANGED <<now, vs>>

Refund(faulty) ==
    \E f \in Faults(4, faulty) :
        \E out \in {Invoke(store, <<"refund">>, now, f)} :
            /\ MayFail(f, out.failed)
            /\ store' = out.store
            /\ resp' = out.resp
            /\ fn' = "refund"
            /\ failures' = failures + Cardinality(out.failed)
            /\ UNCHANGED <<now, vs>>

GetStatus(faulty) ==
    \E f \in Faults(1, faulty) :
        \E out \in {Invoke(store, <<"get_status">>, now, f)} :
            /\ MayFail(f, out.failed)
            /\ store' = out.store
            /\ resp' = out.resp
            /\ fn' = "get_status"
            /\ failures' = failures + Cardinality(out.failed)
            /\ UNCHANGED <<now, vs>>

\* Time passes between transactions.
Tick ==
    /\ now < MaxTime
    /\ now' = now + 1
    /\ UNCHANGED <<store, fn, resp, failures, vs>>

\* The runs in which every ledger call succeeds.
Next ==
    \/ Initialize(FALSE)
    \/ DownloadRequest(RequestArgs, FALSE)
    \/ Penalty(PenaltyArgs, FALSE)
    \/ Refund(FALSE)
    \/ GetStatus(FALSE)
    \/ Tick

Spec == Init /\ [][Next]_vars

\* The runs in which up to MaxFailures ledger calls fail.
NextFaulty ==
    \/ Initialize(TRUE)
    \/ DownloadRequest(FaultyRequestArgs, TRUE)
    \/ Penalty(FaultyPenaltyArgs, TRUE)
    \/ Refund(TRUE)
    \/ GetStatus(TRUE)
    \/ Tick

SpecFaulty == Init /\ [][NextFaulty]_vars

\* ------------------------------------------------- verifySig alone
\* The key lists and signature lists verifySig is applied to: one or two
\* entries each.
KeyLists == {<<k>> : k \in AllKeys} \cup {<<k1, k2>> : k1 \in AllKeys, k2 \in AllKeys}
SigLists == {<<g>> : g \in AllSigs} \cup {<<g1, g2>> : g1 \in AllSigs, g2 \in AllSigs}

InitVerify ==
    /\ store = EmptyLedger
    /\ now = 1
    /\ fn = ""
    /\ resp = Success("")
    /\ failures = 0
    /\ \E m \in Messages, ks \in KeyLists, gs \in SigLists :
          vs = [message |-> m, publicKeys |-> ks, signatures |-> gs,
                result |-> "none"]

\* verifySig(message, publicKeys, signatures) returns.
ApplyVerify ==
    /\ vs.result = "none"
    /\ vs' = [vs EXCEPT !.result =
                 IF verifySig(vs.message, vs.publicKeys, vs.signatures)
                 THEN "true" ELSE "false"]
    /\ UNCHANGED <<store, now, fn, resp, failures>>

NextVerify == ApplyVerify

SpecVerify == InitVerify /\ [][NextVerify]_vars

\* =========================================================== claims
\* The agreement record of a ledger, as the handlers load it.
Record(st) == Unmarshal(st[ContractKey])
\* The balance of a public key on a ledger, as the handlers read it.
Balance(st, k) == AtoiValue(st[k])

\* This step is the transaction with the arguments a, no ledger call failing.
IsCall(a) ==
    /\ now' = now
    /\ fn' = a[1]
    /\ store' = Invoke(store, a, now, {}).store
    /\ resp' = Invoke(store, a, now, {}).resp

\* The message and the two signatures a penalty transaction is sent with:
\* its last three arguments.
PenaltyMessage(a) == a[Len(a) - 2]
OwnerSig(a) == a[Len(a) - 1]
UserSig(a) == a[Len(a)]

\* The signature string g is a signature of the key string k over message m.
SigVerifies(k, m, g) ==
    LET pk    == ParsePKIXPublicKey(DecodeString(k).bytes)
        parts == Split(g)
    IN  /\ pk.type = "ecdsa"
        /\ Len(parts) >= 2
        /\ Verify(pk, m, parts[1], parts[2])

\* C1 (as claimed): once the record's status is penalized or expired, no
\* later transaction changes the status.
C1_TerminalStatusKept ==
    [][Record(store).Status \in {"penalized", "expired"}
         => Record(store').Status = Record(store).Status]_vars

\* C2 (as claimed): on a record in the status download_request wrote, refund
\* at an instant not after the expiry fails with "not yet expired" and
\* changes nothing; refund at an instant after the expiry succeeds, adds the
\* deposit to the user's balance and sets the status to expired.
C2_RefundPath ==
    [][(fn' = "refund" /\ now' = now
          /\ Record(store).Status = "download_requested")
         => LET apdl == Record(store)
                user == apdl.SoftwareUser.PubKey
            IN  IF now > apdl.ContractExpiry
                THEN /\ resp'.status = "OK"
                     /\ Record(store').Status = "expired"
                     /\ Balance(store', user) = Balance(store, user) + apdl.DepositAmount
                ELSE /\ resp' = Error("[-] APDL contract not yet expired")
                     /\ store' = store]_vars

\* C3 (as claimed): a penalty transaction changes the ledger only if the
\* owner's signature verifies against the owner's key and the user's
\* signature against the user's key; otherwise it fails and changes nothing.
C3_DualSignatureGate ==
    [][\A a \in PenaltyArgs :
         IsCall(a) =>
            \/ /\ SigVerifies(Record(store).SoftwareOwner.PubKey, PenaltyMessage(a), OwnerSig(a))
               /\ SigVerifies(Record(store).SoftwareUser.PubKey, PenaltyMessage(a), UserSig(a))
            \/ /\ resp'.status = "ERROR"
               /\ store' = store]_vars

\* C4 (as claimed): every download_request with seven arguments (the function
\* name and six values), an amount >= 0 and a date after the current instant
\* succeeds, whatever the ledger holds, and leaves the record in status
\* download_requested with that deposit and expiry and the balances of the
\* owner's key and of the user's key at StartAmount - amount.
C4_RequestPostcondition ==
    [][\A a \in RequestArgs :
         (/\ IsCall(a)
          /\ Len(a) = 7
          /\ ~Atoi(a[4]).err /\ Atoi(a[4]).n >= 0
          /\ ~ParseDate(a[5]).err /\ ParseDate(a[5]).t > now)
         => /\ resp'.status = "OK"
            /\ Record(store').Status = "download_requested"
            /\ Record(store').DepositAmount = Atoi(a[4]).n
            /\ Record(store').ContractExpiry = ParseDate(a[5]).t
            /\ Balance(store', a[2]) = StartAmount - Atoi(a[4]).n
            /\ Balance(store', a[3]) = StartAmount - Atoi(a[4]).n]_vars

\* The failures of validation: the argument count, the amount, the date, the
\* status, the signatures, the expiry.
ValidationFailures ==
    {"Incorrect number of arguments", "Invalid amount passed", "Unable to parse",
     "Invalid (past) time passed", "need to pass recipient sig",
     "[-] Invalid status for penalty", "[-] Signature verification failed",
     "[-] Invalid status for refund", "[-] APDL contract not yet expired"}

\* C5: a transaction that answers with a validation failure leaves the
\* ledger, the record and every balance, exactly as it found it.
C5_ValidationFailureWritesNothing ==
    [][(now' = now /\ resp'.status = "ERROR" /\ resp'.message \in ValidationFailures)
         => store' = store]_vars

\* C5's case: a download_request with a date that is not in the future has
\* failed on a ledger without a record, and there is still no record.
C5_Witness ==
    /\ fn = "download_request"
    /\ resp = Error("Invalid (past) time passed")
    /\ store[ContractKey] = NilValue

\* C6: a penalty transaction on a record whose status is init or penalized
\* fails and leaves the ledger as it found it, whatever its message and
\* signatures.
C6_PenaltyRejectedByStatus ==
    [][(fn' = "penalty" /\ now' = now /\ Record(store).Status \in {"init", "penalized"})
         => (resp'.status = "ERROR" /\ store' = store)]_vars

\* C6's case: a penalty transaction has been refused on a penalized record.
C6_Witness ==
    /\ fn = "penalty"
    /\ resp = Error("[-] Invalid status for penalty")
    /\ Record(store).Status = "penalized"

\* C7 (as claimed): on a record in status download_requested, a penalty
\* transaction whose two signatures verify succeeds, takes exactly the
\* deposit from the user's balance and sets the status to penalized; the
\* penalty transaction right after a successful one fails and changes nothing.
C7_PenaltyDebitsOnce ==
    [][/\ \A a \in PenaltyArgs :
            (/\ IsCall(a)
             /\ Record(store).Status = "download_requested"
             /\ SigVerifies(Record(store).SoftwareOwner.PubKey, PenaltyMessage(a), OwnerSig(a))
             /\ SigVerifies(Record(store).SoftwareUser.PubKey, PenaltyMessage(a), UserSig(a)))
            => LET user == Record(store).SoftwareUser.PubKey
               IN  /\ resp'.status = "OK"
                   /\ Balance(store', user) = Balance(store, user) - Record(store).DepositAmount
                   /\ Record(store').Status = "penalized"
       /\ (fn = "penalty" /\ resp.status = "OK" /\ fn' = "penalty" /\ now' = now)
            => (resp'.status = "ERROR" /\ store' = store)]_vars

\* The key string decodes without an error to an elliptic-curve key.
DecodesToECKey(k) ==
    /\ ~DecodeString(k).err
    /\ ParsePKIXPublicKey(DecodeString(k).bytes).type = "ecdsa"

\* C8: for two keys that decode and parse as elliptic-curve keys and two
\* signatures of two components, verifySig returns true exactly when the
\* last signature verifies against the last key.
C8_VerifyIsLastPosition ==
    (/\ vs.result # "none"
     /\ Len(vs.publicKeys) = 2 /\ Len(vs.signatures) = 2
     /\ \A i \in 1..2 : /\ DecodesToECKey(vs.publicKeys[i])
                        /\ Len(Split(vs.signatures[i])) >= 2)
    => (vs.result = "true"
          <=> SigVerifies(vs.publicKeys[2], vs.message, vs.signatures[2]))

\* C8's case: verifySig has returned true although the first signature does
\* not verify against the first key.
C8_Witness ==
    /\ vs.result = "true"
    /\ Len(vs.publicKeys) = 2 /\ Len(vs.signatures) = 2
    /\ \A i \in 1..2 : DecodesToECKey(vs.publicKeys[i])
    /\ Len(Split(vs.signatures[1])) >= 2
    /\ ~SigVerifies(vs.publicKeys[1], vs.message, vs.signatures[1])

\* C9 (as claimed): a transaction in which a ledger call fails answers with
\* an error.
C9_LedgerFailureSurfaces ==
    [][failures' > failures => resp'.status = "ERROR"]_vars

\* C10 (as claimed): get_status fails when the ledger holds no record, and
\* otherwise succeeds with the stored bytes of the record.
C10_GetStatus ==
    [][(fn' = "get_status" /\ now' = now)
         => IF store[ContractKey] = NilValue
            THEN resp'.status = "ERROR"
            ELSE resp' = SuccessBytes(store[ContractKey])]_vars

\* The record a get_status transaction on the ledger st returns, decoded.
Returned(st) == Unmarshal(GetStatusHandler(st, {}).resp.payload)

\* The record a download_request with the arguments a builds (line 85).
RequestedRecord(a) ==
    APDL("download_requested", Party(a[2], SenderIP, SenderPort),
         Party(a[3], a[6], a[7]), ParseDate(a[5]).t, Atoi(a[4]).n)

\* C11 (as claimed): after a successful Init, download_request, penalty or
\* refund, get_status returns a record with exactly the status, owner, user,
\* expiry and deposit that the transaction set, whatever the owner's and the
\* user's key.
C11_RoundTrip ==
    [][/\ (fn' = "Init" /\ resp'.status = "OK")
            => Returned(store') = APDL("init", ZeroParty, ZeroParty, now, 0)
       /\ \A a \in RequestArgs :
            (IsCall(a) /\ resp'.status = "OK")
            => Returned(store') = RequestedRecord(a)
       /\ (fn' = "penalty" /\ resp'.status = "OK")
            => Returned(store') = [Record(store) EXCEPT !.Status = "penalized"]
       /\ (fn' = "refund" /\ resp'.status = "OK")
            => Returned(store') = [Record(store) EXCEPT !.Status = "expired"]]_vars

\* C12: in every reachable state the deposit of the stored record is >= 0.
C12_DepositNonNegative == Record(store).DepositAmount >= 0

\* C12's case: a download_request with a negative amount has been refused on
\* a ledger whose record holds a positive deposit.
C12_Witness ==
    /\ fn = "download_request"
    /\ resp = Error("Invalid amount passed")
    /\ Record(store).DepositAmount > 0

\* C13: a transaction that changes the record's status to penalized or to
\* expired finds a stored record whose status is the one download_request
\* writes, never an init record and never a ledger without a record.
C13_NoSkipOfRequested ==
    [][(/\ Record(store').Status \in {"penalized", "expired"}
        /\ Record(store').Status # Record(store).Status)
         => (/\ store[ContractKey] # NilValue
             /\ Record(store).Status = "download_requested")]_vars

\* C13's case: a penalty transaction has just moved the record to penalized.
C13_Witness ==
    /\ fn = "penalty"
    /\ resp = Success("[+] Penalty applied\n")
    /\ Record(store).Status = "penalized"

C15_PenaltyFrame ==
    [][(fn' = "penalty" /\ resp'.status = "OK" /\ now' = now)
         => LET apdl  == Record(store)
                owner == apdl.SoftwareOwner.PubKey
                user  == apdl.SoftwareUser.PubKey
            IN  /\ Balance(store', owner) = Balance(store, owner)
                /\ \A k \in LedgerKeys \ {ContractKey, user} : store'[k] = store[k]
                /\ Record(store') = [apdl EXCEPT !.Status = Record(store').Status]]_vars

\* C16 (as claimed): verifySig returns false when the two lists differ in
\* length, and when at any position the key fails to decode or to parse, is
\* no elliptic-curve key, or the signature has fewer than two components.
C16_VerifyFailsClosed ==
    (/\ vs.result # "none"
     /\ \/ Len(vs.publicKeys) # Len(vs.signatures)
        \/ \E i \in 1..Len(vs.publicKeys) :
              \/ ~DecodesToECKey(vs.publicKeys[i])
              \/ Len(Split(vs.signatures[i])) < 2)
    => vs.result = "false"

\* No balance stored on the ledger st is above the starting amount.
NoMoneyCreated(st) == \A k \in LedgerKeys : Balance(st, k) <= StartAmount

\* Neither the debit of penalty nor the credit of refund on the ledger st
\* leaves the range of int.
InRange(st) ==
    LET apdl == Record(st)
        b    == AtoiValue(GetState(st, apdl.SoftwareUser.PubKey, FALSE).value)
    IN  /\ b - apdl.DepositAmount >= MinInt
        /\ b + apdl.DepositAmount <= MaxInt

\* C17: as long as no debit or credit overflows, no transaction raises a
\* balance above the starting amount: from a ledger without such a balance
\* (the empty ledger is one) every step leads to a ledger without one.
C17_NoMoneyCreated ==
    [][(NoMoneyCreated(store) /\ InRange(store)) => NoMoneyCreated(store')]_vars

\* C17's case: after a request with deposit 1 and its penalty the owner holds
\* the starting amount less 1 and the user the starting amount less 2.
C17_Witness ==
    /\ fn = "penalty"
    /\ resp.status = "OK"
    /\ Balance(store, "ecA") = StartAmount - 1
    /\ Balance(store, "ecB") = StartAmount - 2
    /\ NoMoneyCreated(store)

\* The transactions other than download_request, applied to the ledger st at
\* the instant t: what each of them leaves.
OtherOutcomes(st, t) ==
    {Invoke(st, a, t, {}) : a \in PenaltyArgs \cup {<<"refund">>, <<"get_status">>}}
    \cup {ChaincodeInit(st, t, {})}

\* C18: on a ledger without a record, or with an init record, no Init,
\* penalty, refund or get_status transaction, whatever its message and
\* signatures, writes a balance or sets the status to penalized or expired.
C18_NothingBeforeRequest ==
    Record(store).Status \in {"", "init"}
    => \A out \in OtherOutcomes(store, now) :
          /\ \A k \in LedgerKeys \ {ContractKey} : out.store[k] = store[k]
          /\ Record(out.store).Status \notin {"penalized", "expired"}

\* C18's case: a penalty transaction has been refused on a ledger nothing was
\* ever written to.
C18_Witness ==
    /\ fn = "penalty"
    /\ resp = Error("[-] Signature verification failed")
    /\ store = EmptyLedger

\* C19 (as claimed): for every deposit download_request accepts, with int
\* arithmetic modulo 2^IntBits, the user's balance after a successful
\* penalty transaction is at most the user's balance before it.
C19_PenaltyNeverRaises ==
    [][(fn' = "penalty" /\ resp'.status = "OK" /\ now' = now)
         => LET user == Record(store).SoftwareUser.PubKey
            IN  Balance(store', user) <= Balance(store, user)]_vars

====
